---- MODULE Spec2Model ----
(***************************************************************************)
(* A model of build_module.py: Compiler.collect_files, Compiler.Build,     *)
(* Application.find_config / __init__ / launch_rhino / kill_rhino /        *)
(* compile_plugin / build and the __main__ entry point, over an explicit   *)
(* file system, settings file and wall clock.                              *)
(*                                                                         *)
(* A file or directory name is a tuple of pieces (stem, extension), so     *)
(* that str.endswith and str.lower are computed on it.  A path is a tuple  *)
(* of names.                                                               *)
(***************************************************************************)
EXTENDS Integers, Sequences, FiniteSets, TLC

VARIABLES
    fs,            \* the file system: path -> [kind, data]
    settingsFile,  \* maghpy_settings.json beside the script: [exists, doc]
    now,           \* the wall clock, in ticks
    app,           \* the Application object of the importing client
    procs,         \* the stack of running build_module.py processes
    lastExit,      \* what the most recently ended process did
    lastFind,      \* the most recent call of Application.find_config
    prevFind,      \* the call of find_config before that
    lastBuild,     \* the most recent call of Compiler.Build
    lastCompile,   \* the most recent call of Application.compile_plugin
    runNames,      \* the artifact names of the last two runs that compiled one
    collected,     \* the most recent call of Compiler.collect_files
    lastRun        \* the most recent call of launch_rhino, kill_rhino or build

vars == <<fs, settingsFile, now, app, procs, lastExit, lastFind, prevFind,
          lastBuild, lastCompile, runNames, collected, lastRun>>

----
\* Bounds of the model.

\* Entries the developer adds below the source folder.
MaxNewEntries == 3
\* Depth, below the source folder, of an added entry.
MaxDepth == 2
\* Ticks of the wall clock the model follows.
MaxClock == 3
\* Clock ticks in one second (strftime's %S is the finest field of the name).
TicksPerSecond == 2
\* Nested build_module.py processes followed.
MaxProcs == 2

----
\* Names.  A name is the tuple of its pieces, the last of them its
\* extension when it has one: "a.py" is <<"a", ".py">>.

N_py == <<".py">>
N_src == <<"src">>
N_bin == <<"bin">>
N_Bin == <<"Bin">>
N_local == <<"local">>
N_sub == <<"sub">>
N_init_py == <<"__init__", ".py">>
N_build_module_py == <<"build_module", ".py">>
N_a_py == <<"a", ".py">>
N_notes_txt == <<"notes", ".txt">>
N_core_py == <<"core", ".py">>
N_missing == <<"missing">>
N_tapir_py == <<"tapir_py">>
N_python_package == <<"python-package">>
N_grasshopper_plugin == <<"grasshopper-plugin">>

\* str.lower on one piece: the pieces with upper-case letters that the names
\* of the model use.
LowerPiece(p) ==
    CASE p = "Bin" -> "bin"
      [] OTHER -> p

\* str.lower
lower(name) == [i \in DOMAIN name |-> LowerPiece(name[i])]

\* str.endswith, for a suffix that is made of whole pieces.
endswith(name, suffix) ==
    /\ Len(name) >= Len(suffix)
    /\ SubSeq(name, Len(name) - Len(suffix) + 1, Len(name)) = suffix

----
\* Paths and the file system.

\* os.path.join(path, name)
join(path, name) == Append(path, name)

\* os.path.dirname
dirname(path) == SubSeq(path, 1, Len(path) - 1)

\* os.path.basename
basename(path) == path[Len(path)]

\* os.path.dirname(os.path.abspath(__file__)): the script's directory.
folder_name == <<N_grasshopper_plugin>>

\* os.path.abspath(__file__)
ThisFile == join(folder_name, N_build_module_py)

\* A plain file or a directory holds no data; an artifact holds the list of
\* source files it was compiled from.
NoData == <<>>
DirNode == [kind |-> "dir", data |-> NoData]
FileNode == [kind |-> "file", data |-> NoData]

\* os.path.exists
exists(f, path) == path \in DOMAIN f

\* os.path.isdir
isdir(f, path) == path \in DOMAIN f /\ f[path].kind = "dir"

\* os.listdir: the names of the entries of a directory.
listdir(f, path) ==
    {basename(p) : p \in {q \in DOMAIN f : Len(q) = Len(path) + 1 /\ dirname(q) = path}}

\* path is dir or lies below dir.
IsPrefix(dir, path) ==
    Len(dir) <= Len(path) /\ SubSeq(path, 1, Len(dir)) = dir

\* The file system with `path` holding `node`.
Put(f, path, node) ==
    [p \in DOMAIN f \cup {path} |-> IF p = path THEN node ELSE f[p]]

\* What the file system holds at path and below it.
Subtree(f, path) == [p \in {q \in DOMAIN f : IsPrefix(path, q)} |-> f[p]]

\* os.makedirs: path and its missing ancestors become directories.
makedirs(f, path) ==
    LET new == {SubSeq(path, 1, n) : n \in 1..Len(path)} \ DOMAIN f
    IN  [p \in DOMAIN f \cup new |-> IF p \in new THEN DirNode ELSE f[p]]

\* shutil.rmtree: path and everything below it is gone.
rmtree(f, path) ==
    [p \in {q \in DOMAIN f : ~IsPrefix(path, q)} |-> f[p]]

\* distutils.dir_util.copy_tree: every entry below src appears below dst,
\* overwriting files of the same name; other entries of dst stay.
copy_tree(f, src, dst) ==
    LET below == {q \in DOMAIN f : IsPrefix(src, q)}
        Moved(q) == dst \o SubSeq(q, Len(src) + 1, Len(q))
        new == {Moved(q) : q \in below}
        From(p) == CHOOSE q \in below : Moved(q) = p
        g == makedirs(f, dst)
    IN  [p \in DOMAIN g \cup new |-> IF p \in new THEN f[From(p)] ELSE g[p]]

----
\* Compiler.collect_files

\* ignore_list
ignore_list == {basename(ThisFile), N_init_py, N_local, N_bin}

RECURSIVE collect_files(_, _)
RECURSIVE CollectEntries(_, _, _)

\* The loop over os.listdir(folder_path); the listing order is the file
\* system's, here an arbitrary fixed one.
CollectEntries(f, folder_path, names) ==
    IF names = {} THEN <<>>
    ELSE LET file == CHOOSE n \in names : TRUE
             abs_path == join(folder_path, file)
             here ==
                 IF file \notin ignore_list /\ endswith(file, N_py)
                 THEN <<abs_path>>
                 ELSE IF isdir(f, abs_path) /\ lower(file) \notin ignore_list
                      THEN collect_files(f, abs_path)
                      ELSE <<>>
         IN  here \o CollectEntries(f, folder_path, names \ {file})

\* collect_files as it would be if a path that is a script file itself were
\* handed back as the one collected file.
collect_files_taking_a_file(f, folder_path) ==
    IF isdir(f, folder_path)
    THEN CollectEntries(f, folder_path, listdir(f, folder_path))
    ELSE IF exists(f, folder_path) /\ endswith(basename(folder_path), N_py)
         THEN <<folder_path>>
         ELSE <<>>

collect_files(f, folder_path) ==
    IF isdir(f, folder_path)
    THEN CollectEntries(f, folder_path, listdir(f, folder_path))
    ELSE <<>>

\* The elements of a sequence.
Range(s) == {s[i] : i \in DOMAIN s}

----
\* The settings file and its JSON document.

\* A JSON document is a sequence of tokens: "{", "}", "," and "key": value.
Tok(t) == [t |-> t, k |-> "", v |-> <<>>]
LB == Tok("{")
RB == Tok("}")
COMMA == Tok(",")
Pair(key, value) == [t |-> "pair", k |-> key, v |-> value]

\* A dict with no keys.
EmptyDict == [k \in {} |-> <<>>]

\* The keys of SETTINGS_DATA, in the order of the literal.
SettingsKeys == <<"IRONPYTHONPATH", "RHINOPATH", "PLUGINPATH", "BUILDPATH">>

\* os.environ["APPDATA"]
APPDATA == <<<<"AppData">>>>

\* SETTINGS_DATA as it would be if the default build path were the plugin
\* directory of the host application.
SETTINGS_DATA_building_elsewhere ==
    [k \in Range(SettingsKeys) |->
        CASE k = "IRONPYTHONPATH" -> <<<<"IronPython27">>, <<"ipy.exe">>>>
          [] k = "RHINOPATH" -> <<<<"Rhino 7">>, <<"Rhino.exe">>>>
          [] k = "PLUGINPATH" -> join(join(APPDATA, <<"Grasshopper">>), <<"Libraries">>)
          [] k = "BUILDPATH" -> join(join(APPDATA, <<"Grasshopper">>), <<"Libraries">>)]

\* Application.SETTINGS_DATA
SETTINGS_DATA ==
    [k \in Range(SettingsKeys) |->
        CASE k = "IRONPYTHONPATH" -> <<<<"IronPython27">>, <<"ipy.exe">>>>
          [] k = "RHINOPATH" -> <<<<"Rhino 7">>, <<"Rhino.exe">>>>
          [] k = "PLUGINPATH" -> join(join(APPDATA, <<"Grasshopper">>), <<"Libraries">>)
          [] k = "BUILDPATH" -> join(folder_name, N_bin)]

RECURSIVE DumpItems(_, _)
\* The "key": value items of a dict, joined by commas, in key order.
DumpItems(d, keys) ==
    IF keys = <<>> THEN <<>>
    ELSE IF Head(keys) \notin DOMAIN d THEN DumpItems(d, Tail(keys))
    ELSE LET rest == DumpItems(d, Tail(keys))
         IN  <<Pair(Head(keys), d[Head(keys)])>>
                 \o (IF rest = <<>> THEN <<>> ELSE <<COMMA>> \o rest)

\* json.dump of a dict
json_dump(d) == <<LB>> \o DumpItems(d, SettingsKeys) \o <<RB>>

\* Whether json.load accepts the document: an object of comma-separated items.
Parses(doc) ==
    /\ Len(doc) >= 2
    /\ doc[1] = LB
    /\ doc[Len(doc)] = RB
    /\ \/ Len(doc) = 2
       \/ /\ Len(doc) % 2 = 1
          /\ \A i \in 2..(Len(doc) - 1) :
                IF i % 2 = 0 THEN doc[i].t = "pair" ELSE doc[i] = COMMA

\* json.load of a document that parses: a repeated key keeps its last value.
json_load(doc) ==
    LET items == {i \in DOMAIN doc : doc[i].t = "pair"}
        keys == {doc[i].k : i \in items}
        last(key) == CHOOSE i \in items :
                        /\ doc[i].k = key
                        /\ \A j \in items : doc[j].k = key => j <= i
    IN  [key \in keys |-> doc[last(key)].v]

NoFile == [exists |-> FALSE, doc |-> <<>>]
FileOf(doc) == [exists |-> TRUE, doc |-> doc]

\* find_config as it would be if the first run handed back the defaults it
\* has just written.
find_config_returns_defaults(file) ==
    IF ~file.exists
    THEN [raised |-> "", found |-> FALSE, config_data |-> SETTINGS_DATA,
          file |-> FileOf(json_dump(SETTINGS_DATA))]
    ELSE IF Parses(file.doc)
         THEN [raised |-> "", found |-> TRUE,
               config_data |-> json_load(file.doc), file |-> file]
         ELSE [raised |-> "ValueError", found |-> TRUE,
               config_data |-> EmptyDict, file |-> file]

\* find_config as it would be if a file that does not parse were replaced by
\* the defaults.
find_config_falls_back(file) ==
    IF ~file.exists \/ ~Parses(file.doc)
    THEN [raised |-> "", found |-> file.exists, config_data |-> EmptyDict,
          file |-> FileOf(json_dump(SETTINGS_DATA))]
    ELSE [raised |-> "", found |-> TRUE,
          config_data |-> json_load(file.doc), file |-> file]

\* Application.find_config on the settings file `file`: what it returns or
\* raises, and the file it leaves.
find_config(file) ==
    LET found == file.exists
    IN  IF ~found
        THEN [raised |-> "", found |-> found, config_data |-> EmptyDict,
              file |-> FileOf(json_dump(SETTINGS_DATA))]
        ELSE IF Parses(file.doc)
             THEN [raised |-> "", found |-> found,
                   config_data |-> json_load(file.doc), file |-> file]
             ELSE [raised |-> "ValueError", found |-> found,
                   config_data |-> EmptyDict, file |-> file]

\* What the operator may leave in the settings file with an editor: the
\* defaults with the build path pointed at the plugin directory, an object
\* without keys, a document cut before its closing brace, and an empty file.
CustomSettings ==
    [SETTINGS_DATA EXCEPT !["BUILDPATH"] = SETTINGS_DATA["PLUGINPATH"]]
EditedDocs ==
    { json_dump(SETTINGS_DATA),
      json_dump(CustomSettings),
      <<LB, RB>>,
      SubSeq(json_dump(SETTINGS_DATA), 1, Len(json_dump(SETTINGS_DATA)) - 1),
      <<>> }

----
\* Compiler.Build

\* What the environment does to one call of Build.  Every failure ends the
\* call, so one call meets at most one: os.makedirs of the export folder
\* raises OSError ("makedirs"), clr cannot be imported ("ImportError"),
\* CompileModules raises ("CompileError"), or copy2 cannot write ("copy").
BuildFaults == {"none", "makedirs", "ImportError", "CompileError", "copy"}

\* Lines 59-60 as they would be if the export folder were left to the
\* compiler to create.
ExportFolderMade_by_nobody(f, target_folder) == f

\* Lines 59-60: the export folder is created when it is not there.
ExportFolderMade(f, target_folder) ==
    IF exists(f, target_folder) THEN f ELSE makedirs(f, target_folder)

\* The calls of CompileModules as they would be if a failed compilation were
\* tried a second time.
CompileModulesCalls_retrying(fault, call) ==
    IF fault = "ImportError" THEN <<>>
    ELSE IF fault = "CompileError" THEN <<call, call>>
    ELSE <<call>>

\* Lines 67-68: the calls of CompileModules that one call of Build makes.
\* The import comes first, so there is none when clr cannot be imported;
\* there is no loop around the call and no second call in a handler.
CompileModulesCalls(fault, call) ==
    IF fault = "ImportError" THEN <<>> ELSE <<call>>

\* Compiler.Build(filename, source_folder, copy_target, export_folder) on the
\* file system f.  source_folder and export_folder are relative paths,
\* copy_target is a path or the empty path (the empty string).  The result
\* holds the file system left, what Build returned ("True", "False", "None")
\* or raised, the failure of the environment it met, how many times
\* CompileModules was invoked and with which files, whether it returned (the
\* line after it was printed), whether the copy was attempted and failed,
\* what was printed, and the path the copy wrote or tried to write.  Each
\* call of CompileModules is kept with its arguments and with whether the
\* export folder was there when it was made.
Build(f, filename, source_folder, copy_target, export_folder, fault) ==
    LET source == folder_name \o source_folder
        target_folder == folder_name \o export_folder
        target_file == join(target_folder, filename)
        f1 == ExportFolderMade(f, target_folder)
        program_files == collect_files(f1, source)
        calls == CompileModulesCalls(fault,
                    [target |-> target_file, files |-> program_files,
                     export_exists |-> isdir(f1, target_folder)])
        f2 == Put(f1, target_file, [kind |-> "file", data |-> program_files])
        f3 == IF exists(f2, copy_target) THEN f2 ELSE makedirs(f2, copy_target)
        dst == IF isdir(f3, copy_target) THEN join(copy_target, filename)
               ELSE copy_target
        R(raised, ret, g, cs, failedCopy, printed) ==
            [raised |-> raised, ret |-> ret, fs |-> g, invoked |-> Len(cs),
             calls |-> cs,
             dst |-> IF failedCopy \/ (ret = "True" /\ copy_target # <<>>)
                     THEN dst ELSE <<>>,
             fault |-> IF raised = "" /\ ret = "True" THEN "none"
                       ELSE IF failedCopy /\ dst = target_file THEN "none"
                       ELSE fault,
             compiled |-> (printed # <<>> /\ printed[1] = "BUILD SUCCESSFUL"),
             program_files |-> program_files, target_file |-> target_file,
             copy_failed |-> failedCopy, printed |-> printed]
    IN  IF ~exists(f, target_folder) /\ fault = "makedirs"
        THEN [R("OSError", "", f, <<>>, FALSE, <<>>) EXCEPT !.program_files = <<>>]
        ELSE IF fault = "ImportError"
        THEN R("", "None", f1, calls, FALSE, <<"BUILD FAILED">>)
        ELSE IF fault = "CompileError"
        THEN R("", "False", f1, calls, FALSE, <<"BUILD FAILED">>)
        ELSE IF copy_target = <<>>
        THEN R("", "True", f2, calls, FALSE, <<"BUILD SUCCESSFUL">>)
        ELSE IF dst = target_file \/ fault = "copy"
        THEN R("", "False", f3, calls, TRUE, <<"BUILD SUCCESSFUL", "BUILD FAILED">>)
        ELSE R("", "True", Put(f3, dst, f3[target_file]), calls, FALSE,
               <<"BUILD SUCCESSFUL", "COPY SUCCESSFUL">>)

----
\* Application.compile_plugin

DigitChar(d) ==
    CASE d = 0 -> "0" [] d = 1 -> "1" [] d = 2 -> "2" [] d = 3 -> "3"
      [] d = 4 -> "4" [] d = 5 -> "5" [] d = 6 -> "6" [] d = 7 -> "7"
      [] d = 8 -> "8" [] d = 9 -> "9"

\* A two-digit strftime field.
Digits2(n) == <<DigitChar((n \div 10) % 10), DigitChar(n % 10)>>

\* datetime.now().strftime("tapir_gh_%Y_%b_%d-%H_%M_%S.ghpy") at clock tick t:
\* the fields down to the hour are those of the model's one hour and are left
\* out; the minute and second fields are computed from the whole seconds.
strftime(t) ==
    LET sec == t \div TicksPerSecond
    IN  <<"tapir_gh_">>
            \o Digits2((sec \div 60) % 60) \o <<"_">> \o Digits2(sec % 60)
            \o <<".ghpy">>

\* os.path.dirname(os.path.dirname(os.path.abspath(__file__)))
root == dirname(folder_name)
package_source == root \o <<N_python_package, N_src, N_tapir_py>>
package_target == root \o <<N_grasshopper_plugin, N_src, N_tapir_py>>

\* The message of line 188.
PackageNotFound == "Build Failed. 'tapir_py' package not found."

\* What the environment does to one call of compile_plugin: what it does to
\* Build, or copy_tree cannot copy ("copy_tree").
CompileFaults == BuildFaults \cup {"copy_tree"}

\* compile_plugin as it would be if the clean-up of line 186 stood after the
\* if, so that it ran when the package was not found too.
compile_plugin_cleaning_always(f, self, t, fault) ==
    LET staged == copy_tree(f, package_source, package_target)
        package_name == strftime(t)
        copy_target == self.config_data["BUILDPATH"]
        b == Build(staged, package_name, <<N_src>>, copy_target, <<N_bin>>, fault)
        R(raised, found, didStage, built, g, ret, invoked, compiled, files) ==
            [raised |-> raised, source_found |-> found, staged |-> didStage,
             built |-> built, name |-> IF built THEN package_name ELSE <<>>,
             fs |-> g, ret |-> ret, invoked |-> invoked, compiled |-> compiled,
             program_files |-> files,
             shown |-> IF found THEN <<>> ELSE <<"ERROR", PackageNotFound>>,
             copy_target |-> IF built THEN copy_target ELSE <<>>,
             target_file |-> IF built THEN b.target_file ELSE <<>>,
             dst |-> IF built THEN b.dst ELSE <<>>]
    IN  IF ~exists(f, package_source)
        THEN R("", FALSE, FALSE, FALSE, rmtree(f, package_target), "", 0, FALSE, <<>>)
        ELSE IF fault = "copy_tree"
        THEN R("DistutilsFileError", TRUE, FALSE, FALSE, f, "", 0, FALSE, <<>>)
        ELSE IF "BUILDPATH" \notin DOMAIN self.config_data
        THEN R("KeyError", TRUE, TRUE, FALSE, staged, "", 0, FALSE, <<>>)
        ELSE IF b.raised # ""
        THEN R(b.raised, TRUE, TRUE, TRUE, b.fs, "", b.invoked, b.compiled,
               b.program_files)
        ELSE R("", TRUE, TRUE, TRUE, rmtree(b.fs, package_target), b.ret,
               b.invoked, b.compiled, b.program_files)

\* self.compile_plugin() at clock tick t on the file system f: the file
\* system left, what was raised, whether the package was found and staged,
\* whether Build was called and with which name, what Build did (what it
\* returned, its calls of CompileModules, whether that returned), the
\* error that Application.show put on the console, and the copy target it
\* handed to Build with the paths of the artifact and of its copy.
compile_plugin(f, self, t, fault) ==
    LET staged == copy_tree(f, package_source, package_target)
        package_name == strftime(t)
        copy_target == self.config_data["BUILDPATH"]
        b == Build(staged, package_name, <<N_src>>, copy_target, <<N_bin>>, fault)
        R(raised, found, didStage, built, g, ret, invoked, compiled, files) ==
            [raised |-> raised, source_found |-> found, staged |-> didStage,
             built |-> built, name |-> IF built THEN package_name ELSE <<>>,
             fs |-> g, ret |-> ret, invoked |-> invoked, compiled |-> compiled,
             program_files |-> files,
             shown |-> IF found THEN <<>> ELSE <<"ERROR", PackageNotFound>>,
             copy_target |-> IF built THEN copy_target ELSE <<>>,
             target_file |-> IF built THEN b.target_file ELSE <<>>,
             dst |-> IF built THEN b.dst ELSE <<>>]
    IN  IF ~exists(f, package_source)
        THEN R("", FALSE, FALSE, FALSE, f, "", 0, FALSE, <<>>)
        ELSE IF fault = "copy_tree"
        THEN R("DistutilsFileError", TRUE, FALSE, FALSE, f, "", 0, FALSE, <<>>)
        ELSE IF "BUILDPATH" \notin DOMAIN self.config_data
        THEN R("KeyError", TRUE, TRUE, FALSE, staged, "", 0, FALSE, <<>>)
        ELSE IF b.raised # ""
        THEN R(b.raised, TRUE, TRUE, TRUE, b.fs, "", b.invoked, b.compiled,
               b.program_files)
        ELSE R("", TRUE, TRUE, TRUE, rmtree(b.fs, package_target), b.ret,
               b.invoked, b.compiled, b.program_files)

----
\* Initial state: the plugin project with its source folder, the shared
\* package beside it, no settings file, nothing built.

SourceFolder == join(folder_name, N_src)

InitFs ==
    LET dirs == {folder_name, SourceFolder,
                 <<N_python_package>>, <<N_python_package, N_src>>, package_source}
        files == {ThisFile, join(SourceFolder, N_a_py), join(package_source, N_core_py)}
    IN  [p \in dirs \cup files |-> IF p \in dirs THEN DirNode ELSE FileNode]

NoApp == [made |-> FALSE, is_ready |-> FALSE, config_data |-> EmptyDict]
NoExit == [ended |-> FALSE, ready |-> "unknown", status |-> "", launched |-> FALSE]
NoFind == [called |-> FALSE, before |-> NoFile, raised |-> "", found |-> FALSE,
           config_data |-> EmptyDict, after |-> NoFile]
NoBuild == [called |-> FALSE, filename |-> <<>>, copy_target |-> <<>>,
            fault |-> "none",
            raised |-> "", ret |-> "", invoked |-> 0, compiled |-> FALSE,
            program_files |-> <<>>, copy_failed |-> FALSE, at_target |-> FALSE, at_copy |-> FALSE,
            same_data |-> FALSE, calls |-> <<>>, full_list |-> FALSE,
            copy_target_same |-> TRUE]
NoCompile == [called |-> FALSE, raised |-> "", source_found |-> FALSE,
              staged |-> FALSE, built |-> FALSE, name |-> <<>>, ret |-> "",
              invoked |-> 0, compiled |-> FALSE, target_left |-> FALSE,
              shown |-> <<>>, fs_same |-> TRUE, own_kept |-> TRUE,
              source_same |-> TRUE, defaults |-> FALSE, copy_target |-> <<>>,
              target_file |-> <<>>, dst |-> <<>>]
NoCollect == [called |-> FALSE, folder_path |-> <<>>, files |-> <<>>]
NoCommand == [exe |-> <<>>, flags |-> <<>>, paths |-> <<>>]
NoRun == [op |-> "", is_ready |-> FALSE, raised |-> "", launched |-> FALSE,
          command |-> NoCommand, shown |-> <<>>]

Init ==
    /\ fs = InitFs
    /\ settingsFile = NoFile
    /\ now = 0
    /\ app = NoApp
    /\ procs = <<>>
    /\ lastExit = NoExit
    /\ lastFind = NoFind
    /\ prevFind = NoFind
    /\ lastBuild = NoBuild
    /\ lastCompile = NoCompile
    /\ runNames = <<>>
    /\ collected = NoCollect
    /\ lastRun = NoRun

----
\* The operator and the developer.

\* The operator edits the settings file that a first run created.
EditSettings ==
    /\ settingsFile.exists
    /\ \E doc \in EditedDocs : settingsFile' = FileOf(doc)
    /\ UNCHANGED <<fs, now, app, procs, lastExit, lastFind, prevFind,
                   lastBuild, lastCompile, runNames, collected,
                   lastRun>>

\* The operator deletes the settings file.
DeleteSettings ==
    /\ settingsFile.exists
    /\ settingsFile' = NoFile
    /\ UNCHANGED <<fs, now, app, procs, lastExit, lastFind, prevFind,
                   lastBuild, lastCompile, runNames, collected,
                   lastRun>>

\* Names the developer gives to files and folders of the project.
EntryNames ==
    {N_a_py, N_init_py, N_build_module_py, N_bin, N_Bin, N_local, N_sub, N_notes_txt}

\* The developer adds a file or a folder below the source folder; a listing
\* taken earlier no longer describes the tree.
CreateEntry ==
    /\ Cardinality(DOMAIN fs) < Cardinality(DOMAIN InitFs) + MaxNewEntries
    /\ \E parent \in {p \in DOMAIN fs : IsPrefix(SourceFolder, p) /\ isdir(fs, p)},
          name \in EntryNames, kind \in {"file", "dir"} :
            /\ Len(parent) - Len(SourceFolder) < MaxDepth
            /\ ~exists(fs, join(parent, name))
            /\ fs' = Put(fs, join(parent, name), [kind |-> kind, data |-> NoData])
    /\ collected' = NoCollect
    /\ UNCHANGED <<settingsFile, now, app, procs, lastExit, lastFind, prevFind,
                   lastBuild, lastCompile, runNames,
                   lastRun>>

----
\* Calls by a client that imports the module.

\* Compiler.collect_files(folder_path) on a folder, a file or a missing path.
CollectFilesCall ==
    /\ \E folder_path \in DOMAIN fs \cup {join(SourceFolder, N_missing)} :
          /\ IsPrefix(SourceFolder, folder_path)
          /\ collected' = [called |-> TRUE, folder_path |-> folder_path,
                           files |-> collect_files(fs, folder_path)]
    /\ UNCHANGED <<fs, settingsFile, now, app, procs, lastExit, lastFind, prevFind,
                   lastBuild, lastCompile, runNames,
                   lastRun>>

\* Application.find_config()
FindConfigCall ==
    LET r == find_config(settingsFile)
    IN  /\ settingsFile' = r.file
        /\ lastFind' = [called |-> TRUE, before |-> settingsFile, raised |-> r.raised,
                        found |-> r.found, config_data |-> r.config_data,
                        after |-> r.file]
        /\ prevFind' = lastFind
        /\ UNCHANGED <<fs, now, app, procs, lastExit, lastBuild, lastCompile,
                       runNames, collected,
                   lastRun>>

\* Application(): __init__ stores what find_config returns; when find_config
\* raises, no object is made.
ApplicationInit ==
    LET r == find_config(settingsFile)
    IN  /\ settingsFile' = r.file
        /\ app' = IF r.raised # "" THEN app
                  ELSE [made |-> TRUE, is_ready |-> r.found, config_data |-> r.config_data]
        /\ UNCHANGED <<fs, now, procs, lastExit, lastFind, prevFind, lastBuild,
                       lastCompile, runNames, collected,
                   lastRun>>

\* Compiler.Build(filename, source_folder, copy_target): the client names the
\* artifact and chooses where it is copied: nowhere, the export folder, or
\* the plugin folder.  The source folder is the project, its src folder, or
\* a folder that is not there, from which nothing is collected.
BuildFileNames == {strftime(0), <<"p", ".ghpy">>}
CopyTargets == {<<>>, join(folder_name, N_bin), SETTINGS_DATA["PLUGINPATH"]}

BuildCall ==
    \E filename \in BuildFileNames,
       source_folder \in {<<>>, <<N_src>>, <<N_missing>>},
       copy_target \in CopyTargets, fault \in BuildFaults :
      \E r \in {Build(fs, filename, source_folder, copy_target, <<N_bin>>, fault)} :
        LET copy_file == join(copy_target, filename)
        IN  /\ fs' = r.fs
            /\ lastBuild' =
                  [called |-> TRUE, filename |-> filename, copy_target |-> copy_target,
                   fault |-> r.fault, raised |-> r.raised, ret |-> r.ret,
                   invoked |-> r.invoked, compiled |-> r.compiled,
                   program_files |-> r.program_files,
                   copy_failed |-> r.copy_failed,
                   at_target |-> exists(r.fs, join(join(folder_name, N_bin), filename)),
                   at_copy |-> exists(r.fs, copy_file),
                   same_data |-> /\ exists(r.fs, join(join(folder_name, N_bin), filename))
                                 /\ exists(r.fs, copy_file)
                                 /\ r.fs[copy_file] = r.fs[join(join(folder_name, N_bin), filename)],
                   calls |-> r.calls,
                   full_list |-> /\ r.calls # <<>>
                                 /\ r.calls[1].files =
                                        collect_files(fs, folder_name \o source_folder),
                   copy_target_same |-> \/ copy_target = <<>>
                                        \/ Subtree(fs, copy_target) = Subtree(r.fs, copy_target)]
            /\ UNCHANGED <<settingsFile, now, app, procs, lastExit, lastFind,
                           prevFind, lastCompile, runNames, collected,
                   lastRun>>

\* The files that the staging target holds and that staging the package does
\* not write: those with no counterpart of the same relative path in the
\* package source.
OwnFiles(f) ==
    {p \in DOMAIN f :
        /\ IsPrefix(package_target, p)
        /\ f[p].kind = "file"
        /\ ~exists(f, package_source \o SubSeq(p, Len(package_target) + 1, Len(p)))}

\* app.compile_plugin(), by a client that keeps to "the application will not
\* run if the settings file was freshly created".
CompilePluginCall ==
    /\ app.made
    /\ app.is_ready
    /\ \E fault \in CompileFaults :
        \E r \in {compile_plugin(fs, app, now, fault)} :
            /\ fs' = r.fs
            /\ lastCompile' =
                  [called |-> TRUE, raised |-> r.raised,
                   source_found |-> r.source_found,
                   staged |-> r.staged, built |-> r.built, name |-> r.name,
                   ret |-> r.ret, invoked |-> r.invoked, compiled |-> r.compiled,
                   target_left |-> exists(r.fs, package_target),
                   shown |-> r.shown, fs_same |-> (r.fs = fs),
                   own_kept |-> \A p \in OwnFiles(fs) : exists(r.fs, p),
                   source_same |-> Subtree(r.fs, package_source)
                                       = Subtree(fs, package_source),
                   defaults |-> (app.config_data = SETTINGS_DATA),
                   copy_target |-> r.copy_target,
                   target_file |-> r.target_file, dst |-> r.dst]
            /\ runNames' = IF ~r.compiled THEN runNames
                           ELSE IF runNames = <<>> THEN <<r.name>>
                           ELSE <<runNames[Len(runNames)], r.name>>
    /\ UNCHANGED <<settingsFile, now, app, procs, lastExit, lastFind, prevFind,
                   lastBuild, collected,
                   lastRun>>

\* Time passes.
Tick ==
    /\ now < MaxClock
    /\ now' = now + 1
    /\ UNCHANGED <<fs, settingsFile, app, procs, lastExit, lastFind, prevFind,
                   lastBuild, lastCompile, runNames, collected,
                   lastRun>>

\* The shared package is moved away, or put back.
RemovePackageSource ==
    /\ exists(fs, package_source)
    /\ fs' = rmtree(fs, package_source)
    /\ UNCHANGED <<settingsFile, now, app, procs, lastExit, lastFind, prevFind,
                   lastBuild, lastCompile, runNames, collected,
                   lastRun>>

RestorePackageSource ==
    /\ ~exists(fs, package_source)
    /\ fs' = Put(makedirs(fs, package_source), join(package_source, N_core_py), FileNode)
    /\ UNCHANGED <<settingsFile, now, app, procs, lastExit, lastFind, prevFind,
                   lastBuild, lastCompile, runNames, collected,
                   lastRun>>

\* The developer keeps a file of their own in the folder the package is
\* staged into.
DeveloperFileInTarget ==
    /\ ~exists(fs, join(package_target, N_notes_txt))
    /\ fs' = Put(makedirs(fs, package_target), join(package_target, N_notes_txt), FileNode)
    /\ UNCHANGED <<settingsFile, now, app, procs, lastExit, lastFind, prevFind,
                   lastBuild, lastCompile, runNames, collected,
                   lastRun>>

----
\* The entry point: python build_module.py

NoPath == <<>>
NewProc == [pc |-> "start", is_ready |-> FALSE, config_data |-> EmptyDict,
            child |-> NoPath]

\* The operator starts the script.
Launch ==
    /\ procs = <<>>
    /\ procs' = <<NewProc>>
    /\ UNCHANGED <<fs, settingsFile, now, app, lastExit, lastFind, prevFind,
                   lastBuild, lastCompile, runNames, collected,
                   lastRun>>

\* app.build(): the command line, a KeyError when a key is missing.
build(self) ==
    IF {"IRONPYTHONPATH", "BUILDPATH"} \subseteq DOMAIN self.config_data
    THEN [raised |-> "", exe |-> self.config_data["IRONPYTHONPATH"],
          script |-> ThisFile, arg |-> self.config_data["BUILDPATH"]]
    ELSE [raised |-> "KeyError", exe |-> NoPath, script |-> NoPath, arg |-> NoPath]

\* The newest process runs  app = Application(); app.build()  up to the end of
\* the process or to subprocess.call, where it waits for the child it starts:
\* the interpreter named by IRONPYTHONPATH, if there is one, running the
\* script of the command line.
Main ==
    /\ procs # <<>>
    /\ procs[Len(procs)].pc = "start"
    /\ LET me == Len(procs)
           r == find_config(settingsFile)
           self == [is_ready |-> r.found, config_data |-> r.config_data]
           cmd == build(self)
           Ended(ready, status) ==
               /\ procs' = SubSeq(procs, 1, me - 1)
               /\ lastExit' = [ended |-> TRUE, ready |-> ready, status |-> status,
                               launched |-> FALSE]
       IN  /\ settingsFile' = r.file
           /\ IF r.raised # "" THEN Ended("unknown", r.raised)
              ELSE IF cmd.raised # ""
              THEN Ended(IF r.found THEN "yes" ELSE "no", cmd.raised)
              ELSE \/ Ended(IF r.found THEN "yes" ELSE "no", "OSError")
                   \/ /\ me < MaxProcs
                      /\ procs' = Append(
                            [procs EXCEPT ![me] =
                                [pc |-> "waiting", is_ready |-> r.found,
                                 config_data |-> r.config_data, child |-> cmd.script]],
                            NewProc)
                      /\ UNCHANGED lastExit
    /\ UNCHANGED <<fs, now, app, lastFind, prevFind, lastBuild, lastCompile,
                   runNames, collected,
                   lastRun>>

\* The child has ended: subprocess.call returns, build returns, the script
\* prints an empty line and ends.
MainReturn ==
    /\ procs # <<>>
    /\ procs[Len(procs)].pc = "waiting"
    /\ lastExit' = [ended |-> TRUE,
                    ready |-> IF procs[Len(procs)].is_ready THEN "yes" ELSE "no",
                    status |-> "ok", launched |-> TRUE]
    /\ procs' = SubSeq(procs, 1, Len(procs) - 1)
    /\ UNCHANGED <<fs, settingsFile, now, app, lastFind, prevFind, lastBuild,
                   lastCompile, runNames, collected,
                   lastRun>>

----
\* Application.launch_rhino, kill_rhino and build, called by a client.

NotReady == "Application is not ready. Relaunch and continue."
GrasshopperScript ==
    "/runscript=\"_-Grasshopper Banner Disable Window Load Window Show _Enter\""

\* launch_rhino as it would be without the test of is_ready.
launch_rhino_unguarded(self, launch_grasshopper, fault) ==
    LET shown == <<"LOG", "Launching Rhino...">>
                    \o (IF launch_grasshopper
                        THEN <<"LOG", "Launching Grasshopper...">> ELSE <<>>)
        cmd == [exe |-> self.config_data["RHINOPATH"],
                flags |-> IF launch_grasshopper
                          THEN << <<"/nosplash", GrasshopperScript>> >>
                          ELSE << <<"/nosplash">> >>,
                paths |-> <<>>]
        R(raised, launched, command, log) ==
            [op |-> "launch_rhino", is_ready |-> self.is_ready, raised |-> raised,
             launched |-> launched, command |-> command, shown |-> log]
    IN  IF "RHINOPATH" \notin DOMAIN self.config_data
        THEN R("KeyError", FALSE, NoCommand, <<"LOG", "Launching Rhino...">>)
        ELSE IF fault = "spawn"
        THEN R("OSError", FALSE, cmd, shown)
        ELSE R("", TRUE, cmd, shown \o <<"LOG", "Exiting Rhino...">>)

\* self.launch_rhino(launch_grasshopper): what was shown, the command handed
\* to subprocess.call and whether the process was started, and what was
\* raised: KeyError when the settings hold no RHINOPATH, OSError when
\* subprocess.call cannot start the program (fault "spawn").  Line 156
\* appends the script to "/nosplash" without a space: the two are the
\* pieces of one argument.
launch_rhino(self, launch_grasshopper, fault) ==
    LET shown == <<"LOG", "Launching Rhino...">>
                    \o (IF launch_grasshopper
                        THEN <<"LOG", "Launching Grasshopper...">> ELSE <<>>)
        cmd == [exe |-> self.config_data["RHINOPATH"],
                flags |-> IF launch_grasshopper
                          THEN << <<"/nosplash", GrasshopperScript>> >>
                          ELSE << <<"/nosplash">> >>,
                paths |-> <<>>]
        R(raised, launched, command, log) ==
            [op |-> "launch_rhino", is_ready |-> self.is_ready, raised |-> raised,
             launched |-> launched, command |-> command, shown |-> log]
    IN  IF ~self.is_ready
        THEN R("", FALSE, NoCommand, <<"ERROR", NotReady>>)
        ELSE IF "RHINOPATH" \notin DOMAIN self.config_data
        THEN R("KeyError", FALSE, NoCommand, <<"LOG", "Launching Rhino...">>)
        ELSE IF fault = "spawn"
        THEN R("OSError", FALSE, cmd, shown)
        ELSE R("", TRUE, cmd, shown \o <<"LOG", "Exiting Rhino...">>)

LaunchRhinoCall ==
    /\ app.made
    /\ \E launch_grasshopper \in BOOLEAN, fault \in {"none", "spawn"} :
          lastRun' = launch_rhino(app, launch_grasshopper, fault)
    /\ UNCHANGED <<fs, settingsFile, now, app, procs, lastExit, lastFind,
                   prevFind, lastBuild, lastCompile, runNames, collected>>

\* platform.system(), which __init__ keeps in self.OS: a property of the
\* machine, chosen at the call.
OSNames == {"Windows", "Darwin", "Linux"}

\* self.kill_rhino() on a machine whose self.OS is os: `command` is bound on
\* Windows only, so os.system(command) raises UnboundLocalError elsewhere.
kill_rhino(self, os) ==
    [op |-> "kill_rhino", is_ready |-> self.is_ready,
     raised |-> IF os = "Windows" THEN "" ELSE "UnboundLocalError",
     launched |-> (os = "Windows"),
     command |-> IF os = "Windows"
                 THEN [exe |-> <<<<"taskkill">>>>,
                       flags |-> << <<"/im">>, <<"Rhino", ".exe">>, <<"/t">>, <<"/f">> >>,
                       paths |-> <<>>]
                 ELSE NoCommand,
     shown |-> <<"LOG", "Terminating Rhino.exe">>]

\* kill_rhino as it would be if it also removed the settings file, to have
\* the next start make a fresh one.
KillRhinoCall_forgetting_settings ==
    /\ app.made
    /\ \E os \in OSNames : lastRun' = kill_rhino(app, os)
    /\ settingsFile' = NoFile
    /\ UNCHANGED <<fs, now, app, procs, lastExit, lastFind,
                   prevFind, lastBuild, lastCompile, runNames, collected>>

KillRhinoCall ==
    /\ app.made
    /\ \E os \in OSNames : lastRun' = kill_rhino(app, os)
    /\ UNCHANGED <<fs, settingsFile, now, app, procs, lastExit, lastFind,
                   prevFind, lastBuild, lastCompile, runNames, collected>>

\* app.build() by a client: KeyError when a key of the command line is
\* missing, OSError when subprocess.call cannot start the interpreter;
\* otherwise the interpreter is started on this script, as a process of its
\* own that Main follows.
AppBuildCall ==
    /\ app.made
    /\ procs = <<>>
    /\ LET cmd == build(app)
           R(raised, launched) ==
               [op |-> "build", is_ready |-> app.is_ready, raised |-> raised,
                launched |-> launched,
                command |-> IF cmd.raised # "" THEN NoCommand
                            ELSE [exe |-> cmd.exe, flags |-> <<>>,
                                  paths |-> <<cmd.script, cmd.arg>>],
                shown |-> <<>>]
       IN  IF cmd.raised # ""
           THEN lastRun' = R(cmd.raised, FALSE) /\ UNCHANGED procs
           ELSE \/ lastRun' = R("OSError", FALSE) /\ UNCHANGED procs
                \/ lastRun' = R("", TRUE) /\ procs' = <<NewProc>>
    /\ UNCHANGED <<fs, settingsFile, now, app, lastExit, lastFind,
                   prevFind, lastBuild, lastCompile, runNames, collected>>

----
\* Specifications.

NextCollect == CreateEntry \/ CollectFilesCall
SpecCollect == Init /\ [][NextCollect]_vars

NextConfig == FindConfigCall \/ ApplicationInit \/ EditSettings \/ DeleteSettings
SpecConfig == Init /\ [][NextConfig]_vars

NextBuild == BuildCall
SpecBuild == Init /\ [][NextBuild]_vars

NextPlugin ==
    \/ ApplicationInit \/ EditSettings \/ CompilePluginCall \/ Tick
    \/ RemovePackageSource \/ RestorePackageSource \/ DeveloperFileInTarget
SpecPlugin == Init /\ [][NextPlugin]_vars

NextApp ==
    \/ ApplicationInit \/ EditSettings \/ DeleteSettings \/ LaunchRhinoCall
SpecApp == Init /\ [][NextApp]_vars

NextOps ==
    \/ ApplicationInit \/ DeleteSettings \/ LaunchRhinoCall \/ KillRhinoCall
    \/ AppBuildCall \/ CompilePluginCall \/ Main \/ MainReturn
SpecOps == Init /\ [][NextOps]_vars

Next == Launch \/ Main \/ MainReturn \/ EditSettings \/ DeleteSettings
Spec == Init /\ [][Next]_vars

----
\* The claims.

\* C1: when find_config reports not-ready, the entry point launches nothing
\* and ends normally, not with an unhandled error.
C1_NotReadyEndsNormally ==
    (lastExit.ended /\ lastExit.ready = "no") =>
        (lastExit.status = "ok" /\ ~lastExit.launched)

\* C2: a call of Build whose compile succeeds and whose copy to copy_target
\* fails still returns True.
C2_CopyFailureStillTrue ==
    (lastBuild.called /\ lastBuild.compiled /\ lastBuild.copy_failed) =>
        lastBuild.ret = "True"

\* C3: after a call of compile_plugin that staged the shared package, the
\* staged directory is absent, however the build ended.
C3_StagedCopyRemoved ==
    (lastCompile.called /\ lastCompile.staged) => ~lastCompile.target_left

\* C4: a process that found a ready configuration never starts a further
\* run of the script.
C4_NoFurtherRun ==
    \A i \in DOMAIN procs : procs[i].is_ready => procs[i].child # ThisFile

\* C5: when the compile capability fails, with either kind of failure,
\* Build returns False; when it is unavailable no artifact exists at
\* export_folder/filename or copy_target/filename afterwards.
C5_CompileFailureReturnsFalse ==
    (lastBuild.called /\ lastBuild.fault \in {"ImportError", "CompileError"}) =>
        /\ lastBuild.ret = "False"
        /\ lastBuild.fault = "ImportError" =>
              (~lastBuild.at_target /\ ~lastBuild.at_copy)

\* C6: two sequential runs of compile_plugin that reach the build step and
\* compile their artifacts name them differently.
C6_DistinctNames ==
    Len(runNames) = 2 => runNames[1] # runNames[2]

\* The regular files below folder_path that end in ".py", are not named in
\* the exclusion set, and have no ancestor below folder_path whose name is,
\* in lower case, in the exclusion set.
EligibleFiles(f, folder_path) ==
    {p \in DOMAIN f :
        /\ IsPrefix(folder_path, p)
        /\ Len(p) > Len(folder_path)
        /\ f[p].kind = "file"
        /\ endswith(basename(p), N_py)
        /\ basename(p) \notin ignore_list
        /\ \A n \in (Len(folder_path) + 1)..(Len(p) - 1) :
              lower(p[n]) \notin ignore_list}

\* C7: collect_files returns, as a set, exactly the eligible files of the
\* tree.
C7_CollectExact ==
    collected.called =>
        Range(collected.files) = EligibleFiles(fs, collected.folder_path)

\* C8: find_config is idempotent after the first call: with no settings
\* file the call returns not-ready with an empty settings object and leaves
\* a file holding the four default keys; the next call on that file returns
\* ready with the settings that were written; a call after a call that
\* found the file returns the same and leaves the file as it was.
C8_FindConfigIdempotent ==
    /\ (lastFind.called /\ ~lastFind.before.exists) =>
          /\ lastFind.raised = ""
          /\ ~lastFind.found
          /\ lastFind.config_data = EmptyDict
          /\ lastFind.after.exists
          /\ Parses(lastFind.after.doc)
          /\ DOMAIN json_load(lastFind.after.doc) = Range(SettingsKeys)
    /\ (prevFind.called /\ ~prevFind.before.exists
            /\ lastFind.before = prevFind.after) =>
          /\ lastFind.raised = ""
          /\ lastFind.found
          /\ lastFind.config_data = SETTINGS_DATA
          /\ lastFind.after = lastFind.before
    /\ (prevFind.called /\ prevFind.found /\ prevFind.raised = ""
            /\ lastFind.before = prevFind.after) =>
          /\ lastFind.raised = ""
          /\ lastFind.found
          /\ lastFind.config_data = prevFind.config_data
          /\ lastFind.after = lastFind.before

\* A first call without a file, then a call on the file it left.
C8_Witness ==
    /\ prevFind.called /\ ~prevFind.before.exists
    /\ lastFind.called /\ lastFind.before = prevFind.after
    /\ lastFind.found /\ lastFind.config_data = SETTINGS_DATA

\* C9: a call of Build with a copy_target whose compile succeeds leaves the
\* artifact at export_folder/filename and at copy_target/filename, with the
\* same content, and returns True.
C9_ArtifactAtBothPlaces ==
    (lastBuild.called /\ lastBuild.copy_target # <<>> /\ lastBuild.compiled) =>
        /\ lastBuild.at_target
        /\ lastBuild.at_copy
        /\ lastBuild.same_data
        /\ lastBuild.ret = "True"

\* C10: find_config on a settings file that does not parse raises; it
\* returns nothing, neither defaults nor ready, and leaves the file as it
\* was.
C10_MalformedIsFatal ==
    (lastFind.called /\ lastFind.before.exists /\ ~Parses(lastFind.before.doc)) =>
        /\ lastFind.raised = "ValueError"
        /\ lastFind.config_data # SETTINGS_DATA
        /\ lastFind.after = lastFind.before

\* A call on a file cut before its closing brace.
C10_Witness ==
    /\ lastFind.called
    /\ lastFind.before.exists
    /\ lastFind.before.doc # <<>>
    /\ ~Parses(lastFind.before.doc)
    /\ lastFind.raised = "ValueError"

\* C11: a call of compile_plugin that finds no shared package source
\* directory reports the error and returns: it stages nothing, calls neither
\* Build nor CompileModules, and leaves the file system as it was.
C11_MissingSourceAborts ==
    (lastCompile.called /\ ~lastCompile.source_found) =>
        /\ lastCompile.raised = ""
        /\ lastCompile.shown = <<"ERROR", PackageNotFound>>
        /\ ~lastCompile.staged
        /\ ~lastCompile.built
        /\ lastCompile.invoked = 0
        /\ lastCompile.fs_same

\* A call without the package source, with a folder of the developer's at
\* the place the package is staged into.
C11_Witness ==
    /\ lastCompile.called
    /\ ~lastCompile.source_found
    /\ lastCompile.shown # <<>>
    /\ ~exists(fs, package_source)
    /\ exists(fs, join(package_target, N_notes_txt))

\* C12: a step that is a call of collect_files (the steps that leave a call
\* on record: a change of the tree clears the record) leaves the file
\* system as it was, and when the path it was given does not exist or is
\* not a directory, the call has returned the empty list.
C12_NonDirectoryIsEmpty ==
    [][collected'.called =>
          /\ fs' = fs
          /\ ~isdir(fs, collected'.folder_path) => collected'.files = <<>>]_vars

\* A call on the path of a script file, beside a tree that holds others.
C12_Witness ==
    /\ collected.called
    /\ exists(fs, collected.folder_path)
    /\ ~isdir(fs, collected.folder_path)
    /\ endswith(basename(collected.folder_path), N_py)
    /\ collected.files = <<>>

\* C13: every entry that collect_files returns is a regular file whose name
\* ends in ".py", and no component of its path below the folder passed is
\* in the exclusion set; a directory named like a script is never returned.
C13_OnlyRegularFiles ==
    collected.called =>
        \A p \in Range(collected.files) :
            /\ exists(fs, p)
            /\ fs[p].kind = "file"
            /\ endswith(basename(p), N_py)
            /\ \A n \in (Len(collected.folder_path) + 1)..Len(p) :
                  p[n] \notin ignore_list

\* C14, as stated: every call of Build invokes CompileModules exactly once,
\* with the full list of collected files.
C14_CompiledExactlyOnce ==
    lastBuild.called =>
        /\ Len(lastBuild.calls) = 1
        /\ lastBuild.full_list

\* C14, amended: a call of Build never invokes CompileModules more than
\* once, whatever the failure; a call that creates or finds the export
\* folder and can import clr invokes it exactly once, with the full list of
\* collected files, the empty list included; a call in which os.makedirs
\* raises or clr cannot be imported does not invoke it at all.
C14_CompiledAtMostOnce ==
    lastBuild.called =>
        /\ Len(lastBuild.calls) <= 1
        /\ (lastBuild.raised = "" /\ lastBuild.fault # "ImportError") =>
              /\ Len(lastBuild.calls) = 1
              /\ lastBuild.full_list
              /\ lastBuild.calls[1].files = lastBuild.program_files
        /\ (lastBuild.raised # "" \/ lastBuild.fault = "ImportError") =>
              lastBuild.calls = <<>>

\* A call that collected nothing and whose one compilation failed.
C14_Witness ==
    /\ lastBuild.called
    /\ lastBuild.fault = "CompileError"
    /\ Len(lastBuild.calls) = 1
    /\ lastBuild.calls[1].files = <<>>
    /\ lastBuild.ret = "False"

C16_CleanupOnlyStaged ==
    (lastCompile.called /\ lastCompile.staged /\ lastCompile.raised = "") =>
        /\ lastCompile.source_same
        /\ lastCompile.own_kept

\* C17: launch_rhino starts the host application only when is_ready is
\* true; on an application that is not ready it starts nothing, shows that
\* the application is not ready, and returns without raising.
C17_LaunchOnlyWhenReady ==
    lastRun.op = "launch_rhino" =>
        /\ lastRun.launched => lastRun.is_ready
        /\ ~lastRun.is_ready =>
              /\ ~lastRun.launched
              /\ lastRun.command = NoCommand
              /\ lastRun.shown = <<"ERROR", NotReady>>
              /\ lastRun.raised = ""

\* A call on the application of a first run, whose settings file has just
\* been created.
C17_Witness ==
    /\ lastRun.op = "launch_rhino"
    /\ ~lastRun.is_ready
    /\ app.made /\ ~app.is_ready
    /\ settingsFile.exists
    /\ lastRun.shown = <<"ERROR", NotReady>>

\* C18: a step in which launch_rhino, kill_rhino, build or compile_plugin
\* (and, within it, Compiler.Build) is called on an application that
\* __init__ has made leaves config_data, is_ready and the settings file as
\* they were: the settings change only in steps that are none of these.
C18_SettingsImmutable ==
    [][(LaunchRhinoCall \/ KillRhinoCall \/ AppBuildCall
            \/ lastCompile' # lastCompile)
          => (app' = app /\ settingsFile' = settingsFile)]_vars

\* A ready application that has compiled the plugin and has then been asked
\* to stop the host application, its settings being those that the first
\* run wrote.
C18_Witness ==
    /\ app.made /\ app.is_ready
    /\ app.config_data = SETTINGS_DATA
    /\ settingsFile = FileOf(json_dump(SETTINGS_DATA))
    /\ lastCompile.called /\ lastCompile.compiled
    /\ lastRun.op = "kill_rhino"

\* C19: when the settings an application loaded are the defaults that
\* find_config writes, the copy target that compile_plugin hands to Build is
\* the export folder in which Build compiles the artifact, and the copy
\* after the build has the artifact's own path as its destination.
C19_DefaultCopyOntoItself ==
    (lastCompile.called /\ lastCompile.built /\ lastCompile.defaults) =>
        /\ lastCompile.copy_target = dirname(lastCompile.target_file)
        /\ lastCompile.compiled => lastCompile.dst = lastCompile.target_file
        /\ lastCompile.dst # <<>> => lastCompile.dst = lastCompile.target_file

\* A run with the default settings whose compilation succeeded and whose
\* copy was attempted.
C19_Witness ==
    /\ lastCompile.called /\ lastCompile.built /\ lastCompile.defaults
    /\ lastCompile.compiled
    /\ lastCompile.dst = lastCompile.target_file
    /\ lastCompile.copy_target = join(folder_name, N_bin)

====
